---- MODULE Spec2Model ----
(***************************************************************************)
(* Model of triangle.c: a damped fixed-point iteration that finds the      *)
(* slope m of segment BK for which the angle BKL is 50 degrees, and then   *)
(* derives the angle alpha from it.                                        *)
(*                                                                         *)
(* The program computes in `long double`; its decimal literals and M_PI    *)
(* are `double` values.  The model computes in binary floating point of    *)
(* the same structure: sign, normalised mantissa of MantBits bits (64, the *)
(* x87 extended format), exponent, signed zeros, infinities, NaN, and      *)
(* rounding to nearest-even after every operation.  TLC's integers are 32  *)
(* bits wide, so mantissas are held as little-endian sequences of limbs.   *)
(***************************************************************************)
EXTENDS Integers, Sequences, FiniteSets, TLC

(***************************************************************************)
(* Natural numbers of arbitrary size: little-endian sequences of limbs in  *)
(* 0..Base-1 without a leading (high) zero limb; zero is the empty         *)
(* sequence.  Carries are resolved by look-ahead rather than by recursion  *)
(* over the limbs, which keeps TLC's evaluation shallow.                   *)
(***************************************************************************)
LimbBits == 13
Base == 2^LimbBits

\* the value of a function f of one-point domain: Let([x \in {v} |-> e]) is
\* e for x = v, with v computed once however often e uses x
Let(f) == f[CHOOSE x \in DOMAIN f : TRUE]

Dg(a, k) == IF k >= 1 /\ k <= Len(a) THEN a[k] ELSE 0

\* the function f on 1..n as a sequence: TLC computes every element once
Tup(f, n) == SubSeq(f, 1, n)

\* the limbs d[1..n] without the high zero limbs
Trim(d, n) ==
  LET t == Tup(d, n)
      z == CHOOSE z \in 0..n :
             (z = n \/ t[n - z] # 0) /\ \A j \in (n - z + 1)..n : t[j] = 0
  IN  SubSeq(t, 1, n - z)

\* the number n, 0 <= n < 2^31
BFromInt(n) == Trim([k \in 1..3 |-> (n \div (Base^(k - 1))) % Base], 3)

\* the number a as an integer, a < 2^31
BToInt(a) == Dg(a, 1) + Dg(a, 2) * Base + Dg(a, 3) * Base * Base

\* -1, 0, 1 as a < b, a = b, a > b
BCmp(a, b) ==
  IF Len(a) < Len(b) THEN -1
  ELSE IF Len(a) > Len(b) THEN 1
  ELSE LET n == Len(a)
           z == CHOOSE z \in 0..n :
                  (z = n \/ a[n - z] # b[n - z])
                  /\ \A j \in 0..(z - 1) : a[n - j] = b[n - j]
       IN  IF z = n THEN 0 ELSE IF a[n - z] < b[n - z] THEN -1 ELSE 1

\* whether position k receives a carry (a borrow) from the digit sums (the
\* digit differences) u[1..k-1]: the nearest lower position that does not
\* pass one on, whose digit is not thru, generates one, its digit being
\* beyond thru
Ripple(u, k, thru) ==
  LET d == CHOOSE d \in 1..k :
             (d = k \/ u[k - d] # thru) /\ \A t \in 1..(d - 1) : u[k - t] = thru
  IN  d < k /\ (IF thru = 0 THEN u[k - d] < 0 ELSE u[k - d] > thru)

\* the number with the digit sums u[1..n], each in 0..2*Base-2
Carry(u, n) ==
  Trim([k \in 1..(n + 1) |->
          ((IF k <= n THEN u[k] ELSE 0) + (IF Ripple(u, k, Base - 1) THEN 1 ELSE 0))
          % Base],
       n + 1)

BAdd(a, b) ==
  LET n == IF Len(a) > Len(b) THEN Len(a) ELSE Len(b)
  IN  Carry(Tup([k \in 1..n |-> Dg(a, k) + Dg(b, k)], n), n)

\* a - b, for a >= b
BSub(a, b) ==
  LET n == Len(a)
      u == Tup([k \in 1..n |-> a[k] - Dg(b, k)], n)
  IN  Trim([k \in 1..n |-> (u[k] - (IF Ripple(u, k, 0) THEN 1 ELSE 0) + Base) % Base], n)

\* the sum of a[i] * b[k + 1 - i] for i in lo..hi
RECURSIVE ColSum(_, _, _, _, _)
ColSum(a, b, k, lo, hi) ==
  IF hi - lo < 4
  THEN (IF lo <= hi THEN a[lo] * b[k + 1 - lo] ELSE 0)
       + (IF lo + 1 <= hi THEN a[lo + 1] * b[k - lo] ELSE 0)
       + (IF lo + 2 <= hi THEN a[lo + 2] * b[k - lo - 1] ELSE 0)
       + (IF lo + 3 <= hi THEN a[lo + 3] * b[k - lo - 2] ELSE 0)
  ELSE ColSum(a, b, k, lo, (lo + hi) \div 2)
       + ColSum(a, b, k, (lo + hi) \div 2 + 1, hi)

\* a * b, for operands of at most 31 limbs (a column sum stays below 2^31)
BMul(a, b) ==
  IF a = <<>> \/ b = <<>> THEN <<>>
  ELSE Let([n \in {Len(a) + Len(b)} |->
       Let([col \in {Tup([k \in 1..n |->
                   ColSum(a, b, k, (IF k > Len(b) THEN k + 1 - Len(b) ELSE 1),
                          (IF k < Len(a) THEN k ELSE Len(a)))], n)} |->
       Let([t \in {Tup([k \in 1..(n + 2) |->
                   (Dg(col, k) % Base) + ((Dg(col, k - 1) \div Base) % Base)
                   + (Dg(col, k - 2) \div (Base * Base))], n + 2)} |->
         Carry(Tup([k \in 1..(n + 3) |->
                      (IF k <= n + 2 THEN (t[k] % Base) ELSE 0)
                      + (IF k >= 2 THEN (t[k - 1] \div Base) ELSE 0)], n + 3),
               n + 3)])])])

\* a * d, for a limb d
BMulSmall(a, d) ==
  IF d = 0 \/ a = <<>> THEN <<>>
  ELSE Let([n \in {Len(a)} |->
       Let([p \in {Tup([k \in 1..n |-> a[k] * d], n)} |->
         Carry(Tup([k \in 1..(n + 1) |->
                      (IF k <= n THEN (p[k] % Base) ELSE 0)
                      + (IF k >= 2 THEN (p[k - 1] \div Base) ELSE 0)], n + 1),
               n + 1)])])

\* a * 2^s
BShl(a, s) ==
  LET q == s \div LimbBits
      p == 2^(s % LimbBits)
      n == Len(a) + q + 1
  IN  IF a = <<>> THEN a
      ELSE Trim([k \in 1..n |->
                   ((Dg(a, k - q) * p) % Base) + ((Dg(a, k - q - 1) * p) \div Base)], n)

\* floor(a / 2^s)
BShr(a, s) ==
  LET q == s \div LimbBits
      r == s % LimbBits
      n == Len(a) - q
  IN  IF n <= 0 THEN <<>>
      ELSE Trim([k \in 1..n |->
                   (Dg(a, k + q) \div (2^r))
                   + ((Dg(a, k + q + 1) % (2^r)) * (2^(LimbBits - r)))], n)

\* whether 2^s divides a
BLowZero(a, s) ==
  /\ \A k \in 1..(s \div LimbBits) : Dg(a, k) = 0
  /\ Dg(a, s \div LimbBits + 1) % (2^(s % LimbBits)) = 0

\* number of bits of the limb d
LimbLen(d) == CHOOSE n \in 0..LimbBits : d < 2^n /\ (n = 0 \/ d >= 2^(n - 1))

\* number of bits of a (0 for zero)
BBitLen(a) ==
  IF a = <<>> THEN 0 ELSE LimbBits * (Len(a) - 1) + LimbLen(a[Len(a)])

BOdd(a) == a # <<>> /\ a[1] % 2 = 1

\* One step of the long division of a by b, whose top limb is >= Base / 2:
\* the limb a[st.i] is brought down to the remainder st.r, and the quotient
\* limb is the estimate from the leading limbs, lowered by at most 2.
BDivStep(a, b, st) ==
  Let([n \in {Len(b)} |->
  Let([r1 \in {IF st.r = <<>> THEN (IF a[st.i] = 0 THEN <<>> ELSE <<a[st.i]>>)
       ELSE <<a[st.i]>> \o st.r} |->
  Let([top \in {(Dg(r1, n + 1) * Base + Dg(r1, n)) \div b[n]} |->
  Let([est \in {IF top > Base - 1 THEN Base - 1 ELSE top} |->
  Let([p0 \in {BMulSmall(b, est)} |->
    IF BCmp(p0, r1) <= 0
    THEN [q |-> <<est>> \o st.q, r |-> BSub(r1, p0), i |-> st.i - 1]
    ELSE Let([p1 \in {BSub(p0, b)} |->
      IF BCmp(p1, r1) <= 0
      THEN [q |-> <<est - 1>> \o st.q, r |-> BSub(r1, p1), i |-> st.i - 1]
      ELSE [q |-> <<est - 2>> \o st.q, r |-> BSub(r1, BSub(p1, b)),
            i |-> st.i - 1]])])])])])])

\* n steps, halving n to keep the evaluation shallow
RECURSIVE BDivSteps(_, _, _, _)
BDivSteps(a, b, st, n) ==
  IF n = 0 THEN st
  ELSE IF n = 1 THEN BDivStep(a, b, st)
  ELSE Let([mid \in {BDivSteps(a, b, st, n \div 2)} |->
         IF mid.i >= 0 THEN BDivSteps(a, b, mid, n - n \div 2) ELSE mid])

\* [q |-> floor(a / b), exact |-> whether b divides a], for b > 0.  The
\* leading Len(b) - 1 limbs of a are below b and start as the remainder.
BDiv(a, b) ==
  Let([s \in {LimbBits - LimbLen(b[Len(b)])} |->
  Let([a1 \in {BShl(a, s)} |->
  Let([b1 \in {BShl(b, s)} |->
  Let([n \in {Len(a1) - (Len(b1) - 1)} |->
    IF n <= 0 THEN [q |-> <<>>, exact |-> a = <<>>]
    ELSE Let([d \in {BDivSteps(a1, b1,
                        [q |-> <<>>, r |-> SubSeq(a1, n + 1, Len(a1)), i |-> n],
                        n)} |->
           [q |-> Trim(d.q, Len(d.q)), exact |-> d.r = <<>>]])])])])])

\* floor(sqrt(t)) for an integer t >= 1, by Newton's iteration from x above
\* the root
RECURSIVE ISqrtFrom(_, _)
ISqrtFrom(t, x) ==
  LET y == (x + t \div x) \div 2
  IN  IF y >= x THEN x ELSE ISqrtFrom(t, y)

\* floor(sqrt(n)).  The root of the leading bits, plus one and shifted back,
\* is above the root by at most 2^(s/2), which is at most the square root
\* of the root; one step of Newton's iteration from there lands on the root
\* or one above it, and the square tells which.
RECURSIVE BSqrt(_)
BSqrt(n) ==
  IF n = <<>> THEN <<>>
  ELSE IF BBitLen(n) <= 2 * LimbBits + 2
  THEN BFromInt(ISqrtFrom(BToInt(n), 2 * Base))
  ELSE Let([s \in {2 * ((((BBitLen(n) + 1) \div 2) - 1) \div 2)} |->
       Let([x0 \in {BShl(BAdd(BSqrt(BShr(n, s)), <<1>>), s \div 2)} |->
       Let([y \in {BShr(BAdd(x0, BDiv(n, x0).q), 1)} |->
         IF BCmp(BMul(y, y), n) > 0 THEN BSub(y, <<1>>) ELSE y])])])

(***************************************************************************)
(* The type real (long double): a binary floating-point number.  A finite  *)
(* nonzero value is s * m * 2^e with s the sign (1 or -1) and m a mantissa *)
(* of exactly MantBits bits; a zero has the empty mantissa and keeps its   *)
(* sign.  A result of 2^(MaxExp + 1) or more overflows to an infinity and  *)
(* one below 2^MinExp is flushed to zero (the model has no subnormal       *)
(* numbers).  A double is a real whose mantissa has DoubleBits significant *)
(* bits; the operators with a precision p round to p bits.                 *)
(***************************************************************************)
MantBits == 64
MaxExp == 16383
MinExp == -16382
DoubleBits == 53

NaN == [k |-> "nan", s |-> 1, m |-> <<>>, e |-> 0]
Inf(s) == [k |-> "inf", s |-> s, m |-> <<>>, e |-> 0]
Zero(s) == [k |-> "fin", s |-> s, m |-> <<>>, e |-> 0]

IsNaN(x) == x.k = "nan"
IsInf(x) == x.k = "inf"
IsFinite(x) == x.k = "fin"
IsZero(x) == x.k = "fin" /\ x.m = <<>>

\* the finite value s * m * 2^e, m of MantBits bits, or what it overflows or
\* underflows to
Pack(s, m, e) ==
  IF e + MantBits - 1 > MaxExp THEN Inf(s)
  ELSE IF e + MantBits - 1 < MinExp THEN Zero(s)
  ELSE [k |-> "fin", s |-> s, m |-> m, e |-> e]

\* s * M * 2^e rounded to p bits, to nearest, ties to even; sticky says that
\* the exact value is larger in magnitude than M * 2^e by less than 2^e
RoundTo(p, s, M, e, sticky) ==
  Let([n \in {BBitLen(M)} |->
    IF n = 0 THEN Zero(s)
    ELSE IF n <= p THEN Pack(s, BShl(M, MantBits - n), e - (MantBits - n))
    ELSE Let([M1 \in {BShr(M, n - p - 1)} |->
         Let([q \in {BShr(M1, 1)} |->
         Let([q2 \in {IF BOdd(M1) /\ (sticky \/ ~BLowZero(M, n - p - 1) \/ BOdd(q))
              THEN BAdd(q, <<1>>) ELSE q} |->
         Let([n2 \in {BBitLen(q2)} |->
           IF n2 > MantBits
           THEN Pack(s, BShr(q2, n2 - MantBits), e + (n - p) + (n2 - MantBits))
           ELSE Pack(s, BShl(q2, MantBits - n2),
                     e + (n - p) - (MantBits - n2))])])])])])

Round(s, M, e, sticky) == RoundTo(MantBits, s, M, e, sticky)

\* the real equal to the integer n, |n| < 2^31
FromInt(n) == IF n < 0 THEN Round(-1, BFromInt(-n), 0, FALSE)
              ELSE Round(1, BFromInt(n), 0, FALSE)

RNeg(x) == IF IsNaN(x) THEN x ELSE [x EXCEPT !.s = -x.s]

fabsl(x) == IF IsNaN(x) THEN x ELSE [x EXCEPT !.s = 1]

\* x + y for finite nonzero x and y, x.e >= y.e.  When y lies wholly below
\* the rounding position of x it only decides the direction of rounding.
AddAligned(x, y) ==
  Let([far \in {x.e - y.e > MantBits + 3} |->
  Let([Mx \in {IF far THEN BShl(x.m, 3) ELSE BShl(x.m, x.e - y.e)} |->
  Let([My \in {IF far THEN <<1>> ELSE y.m} |->
  Let([e \in {IF far THEN x.e - 3 ELSE y.e} |->
  Let([c \in {BCmp(Mx, My)} |->
    IF x.s = y.s THEN Round(x.s, BAdd(Mx, My), e, FALSE)
    ELSE IF c = 0 THEN Zero(1)
    ELSE IF c > 0 THEN Round(x.s, BSub(Mx, My), e, FALSE)
    ELSE Round(y.s, BSub(My, Mx), e, FALSE)])])])])])

RAdd(x, y) ==
  IF IsNaN(x) \/ IsNaN(y) THEN NaN
  ELSE IF IsInf(x) THEN (IF IsInf(y) /\ x.s # y.s THEN NaN ELSE x)
  ELSE IF IsInf(y) THEN y
  ELSE IF IsZero(x) THEN (IF IsZero(y) THEN (IF x.s = y.s THEN x ELSE Zero(1)) ELSE y)
  ELSE IF IsZero(y) THEN x
  ELSE IF x.e >= y.e THEN AddAligned(x, y)
  ELSE AddAligned(y, x)

RSub(x, y) == RAdd(x, RNeg(y))

\* x * y rounded to p bits
MulTo(p, x, y) ==
  IF IsNaN(x) \/ IsNaN(y) THEN NaN
  ELSE IF IsInf(x) \/ IsInf(y)
       THEN (IF IsZero(x) \/ IsZero(y) THEN NaN ELSE Inf(x.s * y.s))
  ELSE IF IsZero(x) \/ IsZero(y) THEN Zero(x.s * y.s)
  ELSE RoundTo(p, x.s * y.s, BMul(x.m, y.m), x.e + y.e, FALSE)

RMul(x, y) == MulTo(MantBits, x, y)

\* x / y rounded to p bits
DivTo(p, x, y) ==
  IF IsNaN(x) \/ IsNaN(y) THEN NaN
  ELSE IF IsInf(x) THEN (IF IsInf(y) THEN NaN ELSE Inf(x.s * y.s))
  ELSE IF IsInf(y) THEN Zero(x.s * y.s)
  ELSE IF IsZero(y) THEN (IF IsZero(x) THEN NaN ELSE Inf(x.s * y.s))
  ELSE IF IsZero(x) THEN Zero(x.s * y.s)
  ELSE Let([d \in {BDiv(BShl(x.m, p + 2), y.m)} |->
         RoundTo(p, x.s * y.s, d.q, x.e - y.e - (p + 2), ~d.exact)])

RDiv(x, y) == DivTo(MantBits, x, y)

sqrtl(x) ==
  IF IsNaN(x) THEN NaN
  ELSE IF IsZero(x) THEN x
  ELSE IF x.s = -1 THEN NaN
  ELSE IF IsInf(x) THEN x
  ELSE Let([t \in {MantBits + 4 + ((x.e - MantBits) % 2)} |->
       Let([N \in {BShl(x.m, t)} |->
       Let([r \in {BSqrt(N)} |->
         Round(1, r, (x.e - t) \div 2, BMul(r, r) # N)])])])

\* |x| < |y|, for x and y not NaN
MagLess(x, y) ==
  IF IsInf(x) \/ IsZero(y) THEN FALSE
  ELSE IF IsInf(y) \/ IsZero(x) THEN TRUE
  ELSE x.e < y.e \/ (x.e = y.e /\ BCmp(x.m, y.m) < 0)

Sgn(x) == IF IsZero(x) THEN 0 ELSE x.s

\* x < y and x <= y as C compares them: false when either is NaN
RLess(x, y) ==
  /\ ~IsNaN(x)
  /\ ~IsNaN(y)
  /\ \/ Sgn(x) < Sgn(y)
     \/ Sgn(x) = 1 /\ Sgn(y) = 1 /\ MagLess(x, y)
     \/ Sgn(x) = -1 /\ Sgn(y) = -1 /\ MagLess(y, x)

RLessEq(x, y) == ~IsNaN(x) /\ ~IsNaN(y) /\ ~RLess(y, x)

(***************************************************************************)
(* acosl.  The angle is found as a fraction of pi, one binary digit for    *)
(* each doubling of the angle.  With w = 2cos(t) the doubled angle has     *)
(* 2cos(2t) = w^2 - 2, and an angle above pi/2 doubles to the reflection   *)
(* of an angle in [0, pi): the digits of the fraction are the running      *)
(* parity of the negative cosines.  |w| is held in fixed point with whole  *)
(* limbs of fraction; a doubling multiplies its error by at most 4, so     *)
(* before the k-th of AcosDigits doublings it is kept to at least          *)
(* 2 * (AcosDigits - k) + AcosGuard fractional bits.  The result is within *)
(* pi * 2^-AcosDigits of the angle, where a library's result is within a   *)
(* unit in the last place.                                                 *)
(***************************************************************************)
AcosGuard == 12
AcosDigits == MantBits + 8

\* floor(pi * 2^PiScale), from its binary digits in groups of 30
PiScale == 88
PiLimbs ==
  BAdd(BShl(BFromInt(843314856), 60), BAdd(BShl(BFromInt(571903011), 30), BFromInt(320018826)))

\* the limbs of fraction kept before doubling k
AcosLimbs(k) == (2 * (AcosDigits - k) + AcosGuard + LimbBits - 1) \div LimbBits

\* One doubling.  The state holds, for the angle t * pi reached after k
\* doublings, the sign s of its cosine and w = |2cos| * Base^AcosLimbs(k)
\* (short by a few units), the first k digits of the start angle's fraction
\* of pi in acc, a number of AcosDigits bits held as a tuple of limbs, and
\* whether the next digit is the complement of the angle's (odd).
AcosStep(st) ==
  Let([q \in {AcosLimbs(st.k)} |->
  Let([P \in {BMul(st.w, st.w)} |->
  Let([S \in {SubSeq(P, q + 1, Len(P))} |->
  Let([ip \in {Dg(S, q + 1)} |->
  Let([w1 \in {IF ip >= 2 THEN Trim([S EXCEPT ![q + 1] = ip - 2], q + 1)
       ELSE Trim([k \in 1..(q + 1) |->
                    IF k <= q THEN Base - 1 - Dg(S, k) ELSE 1 - ip], q + 1)} |->
  Let([odd \in {st.odd # (st.s = -1)} |->
  Let([pos \in {AcosDigits - 1 - st.k} |->
    [s   |-> IF ip >= 2 THEN 1 ELSE -1,
     w   |-> IF AcosLimbs(st.k + 1) < q THEN SubSeq(w1, 2, Len(w1)) ELSE w1,
     acc |-> IF odd
             THEN [st.acc EXCEPT ![pos \div LimbBits + 1] = @ + 2^(pos % LimbBits)]
             ELSE st.acc,
     odd |-> odd,
     k   |-> st.k + 1]])])])])])])])

\* n doublings, halving n to keep the evaluation shallow
RECURSIVE AcosSteps(_, _)
AcosSteps(st, n) ==
  IF n = 0 THEN st
  ELSE IF n = 1 THEN AcosStep(st)
  ELSE Let([mid \in {AcosSteps(st, n \div 2)} |->
         IF mid.k >= 0 THEN AcosSteps(mid, n - n \div 2) ELSE mid])

\* t * 2^AcosDigits to the nearest integer, for the angle t * pi in [0, pi]
\* whose cosine is s * w / (2 * Base^AcosLimbs(0))
AcosTurns(s, w) ==
  Let([n \in {AcosDigits \div LimbBits + 1} |->
  Let([st \in {AcosSteps([s |-> s, w |-> w, acc |-> Tup([k \in 1..n |-> 0], n),
                  odd |-> FALSE, k |-> 0], AcosDigits)} |->
    IF st.odd # (st.s = -1) THEN BAdd(Trim(st.acc, n), <<1>>)
    ELSE Trim(st.acc, n)])])

acosl(x) ==
  IF ~IsFinite(x) THEN NaN
  ELSE IF RLess(FromInt(1), fabsl(x)) THEN NaN
  ELSE Let([sh \in {x.e + 1 + LimbBits * AcosLimbs(0)} |->
       Let([w \in {IF sh >= 0 THEN BShl(x.m, sh) ELSE BShr(x.m, -sh)} |->
         Round(1, BMul(AcosTurns(IF w = <<>> THEN 1 ELSE x.s, w), PiLimbs),
               -(AcosDigits + PiScale), TRUE)])])

(***************************************************************************)
(* The program's constants.  A literal such as 0.1 and the macro M_PI are  *)
(* doubles, and an expression of doubles and ints is computed in double.   *)
(***************************************************************************)
\* a loop that is given no iterations
NoIterations == 1 - 1

CONSTRAINT_SOLVER_MAX_ITERATIONS == 1000

\* the guess 0.0, at which the slope of CK is a division by zero
GuessZero == Zero(1)

CONSTRAINT_SLOPE_INITIAL_GUESS == FromInt(1)
CONSTRAINT_ERROR_TRANSFER_RATIO == DivTo(DoubleBits, FromInt(1), FromInt(10))
CONSTRAINT_ERROR_THRESHOLD ==
  DivTo(DoubleBits, FromInt(1), RMul(FromInt(100000), FromInt(100000)))

M_PI == RoundTo(DoubleBits, 1, PiLimbs, -PiScale, TRUE)

RADIANS_TO_DEGREES == DivTo(DoubleBits, FromInt(180), M_PI)
FIFTY_DEGREES_AS_RADIANS ==
  DivTo(DoubleBits, MulTo(DoubleBits, FromInt(50), M_PI), FromInt(180))

\* the literal 0.5
Half == DivTo(DoubleBits, FromInt(1), FromInt(2))

(***************************************************************************)
(* The vector primitives.                                                  *)
(***************************************************************************)
vec2Subtract(a, b) == [x |-> RSub(a.x, b.x), y |-> RSub(a.y, b.y)]

vec2Dot(a, b) == RAdd(RMul(a.x, b.x), RMul(a.y, b.y))

vec2Magnitude(v) == sqrtl(RAdd(RMul(v.x, v.x), RMul(v.y, v.y)))

vec2Angle(a, b, c) ==
  Let([ab \in {vec2Subtract(b, a)} |->
  Let([cb \in {vec2Subtract(b, c)} |->
    acosl(RDiv(vec2Dot(ab, cb),
               RMul(vec2Magnitude(ab), vec2Magnitude(cb))))])])

(***************************************************************************)
(* ConstraintTest: the angle BKL for the slope m of BK.  ConstraintFrame   *)
(* is the call's frame: the argument, the locals and the value returned;   *)
(* radicand is the operand 2.0*K.x of the square root of line 63.          *)
(***************************************************************************)
\* sqrtl(m*m + 1.0)
SlopeNorm(m) == sqrtl(RAdd(RMul(m, m), FromInt(1)))

\* K with the operands of the subtraction of line 59 exchanged
PointKSwapped(m) ==
  [x |-> RSub(RDiv(FromInt(1), SlopeNorm(m)), FromInt(1)),
   y |-> RDiv(m, SlopeNorm(m))]

\* the point K of lines 58-61
PointK(m) ==
  [x |-> RSub(FromInt(1), RDiv(FromInt(1), SlopeNorm(m))),
   y |-> RDiv(m, SlopeNorm(m))]

ConstraintFrame(m) ==
  Let([msqrt \in {SlopeNorm(m)} |->
  Let([K \in {PointK(m)} |->
  Let([slopeK \in {RDiv(RAdd(msqrt, FromInt(1)), m)} |->
  Let([radicand \in {RMul(FromInt(2), K.x)} |->
  Let([j \in {sqrtl(radicand)} |->
  Let([A \in {[x |-> Half, y |-> RMul(slopeK, Half)]} |->
  Let([magnitudeA \in {vec2Magnitude(A)} |->
  Let([i \in {RSub(magnitudeA, j)} |->
  Let([L \in {[x |-> RSub(FromInt(1), RDiv(RMul(i, Half), magnitudeA)),
        y |-> RDiv(RMul(i, A.y), magnitudeA)]} |->
  Let([B \in {[x |-> FromInt(1), y |-> Zero(1)]} |->
    [called |-> TRUE, m |-> m, msqrt |-> msqrt, K |-> K,
     slopeK |-> slopeK, radicand |-> radicand, j |-> j, A |-> A,
     magnitudeA |-> magnitudeA, i |-> i, L |-> L, B |-> B,
     return |-> vec2Angle(B, K, L)]])])])])])])])])])])

ConstraintTest(m) == ConstraintFrame(m).return

\* j with 1.0 for the dividend 2.0 of line 102
AlphaJOne(m) == sqrtl(RSub(FromInt(2), RDiv(FromInt(1), SlopeNorm(m))))

\* the length j of line 102
AlphaJ(m) == sqrtl(RSub(FromInt(2), RDiv(FromInt(2), SlopeNorm(m))))

\* alpha without the factor 2.0 of line 112
alphaOnce(m) ==
  Let([j \in {AlphaJ(m)} |->
  Let([angleBCK \in {RMul(acosl(RMul(j, Half)), RADIANS_TO_DEGREES)} |->
    RSub(FromInt(180), angleBCK)])])

alpha(m) ==
  Let([j \in {AlphaJ(m)} |->
  Let([angleBCK \in {RMul(acosl(RMul(j, Half)), RADIANS_TO_DEGREES)} |->
    RSub(FromInt(180), RMul(FromInt(2), angleBCK))])])

(***************************************************************************)
(* main.  pc is the position in main: "loop" the while condition, "eval"   *)
(* lines 149-150, "test" the comparison of line 151, "update" lines        *)
(* 161-162, "print" the four printf calls, "ret" the return statement.     *)
(* i, m, theta and error are main's variables; error holds an              *)
(* indeterminate value until assigned.  frame is the frame of the last     *)
(* call of ConstraintTest, out the arguments of the four printf calls and  *)
(* ret the exit code.  errorSet, readUnset, evals, updates, lastEval and   *)
(* converged record the history and are not read by the program.           *)
(***************************************************************************)
VARIABLES pc, i, m, theta, error, frame, errorSet, readUnset, evals, updates,
          lastEval, converged, out, ret

vars == <<pc, i, m, theta, error, frame, errorSet, readUnset, evals, updates,
          lastEval, converged, out, ret>>

\* values an uninitialised real may hold
Indeterminate == {Zero(1), NaN}

\* no call of ConstraintTest yet
NoFrame == [called |-> FALSE]

\* the comparison of line 151 written as the negation of >, which a NaN
\* passes
WithinThresholdNotAbove(err) ==
  ~RLess(CONSTRAINT_ERROR_THRESHOLD, fabsl(err))

\* the comparison of line 151
WithinThreshold(err) == RLessEq(fabsl(err), CONSTRAINT_ERROR_THRESHOLD)

\* the right-hand side of line 150
ErrorOf(angle) == RSub(angle, FIFTY_DEGREES_AS_RADIANS)

\* the assignment of line 161
Feedback(slope, err) == RAdd(slope, RMul(err, CONSTRAINT_ERROR_TRANSFER_RATIO))

\* the iterations left, printed for the iterations used
IterationsLeft(remaining) == remaining

\* the first argument of the printf of line 167
IterationsUsed(remaining) == CONSTRAINT_SOLVER_MAX_ITERATIONS - remaining

InitWith(guess) ==
  /\ pc = "loop"
  /\ i = CONSTRAINT_SOLVER_MAX_ITERATIONS
  /\ m = guess
  /\ theta = NaN
  /\ error \in Indeterminate
  /\ frame = NoFrame
  /\ errorSet = FALSE
  /\ readUnset = FALSE
  /\ evals = 0
  /\ updates = 0
  /\ lastEval = NaN
  /\ converged = FALSE
  /\ out = <<>>
  /\ ret = -1

Init == InitWith(CONSTRAINT_SLOPE_INITIAL_GUESS)

\* line 148 with the condition i >= 0, which an unsigned i always meets
LoopTestNonNegative ==
  /\ pc = "loop"
  /\ pc' = "eval"
  /\ UNCHANGED <<i, m, theta, error, frame, errorSet, readUnset, evals, updates,
                 lastEval, converged, out, ret>>

\* line 148
LoopTest ==
  /\ pc = "loop"
  /\ pc' = IF i > 0 THEN "eval" ELSE "print"
  /\ UNCHANGED <<i, m, theta, error, frame, errorSet, readUnset, evals, updates,
                 lastEval, converged, out, ret>>

\* lines 149-150
Evaluate ==
  /\ pc = "eval"
  /\ frame' = ConstraintFrame(m)
  /\ theta' = frame'.return
  /\ error' = ErrorOf(theta')
  /\ errorSet' = TRUE
  /\ evals' = evals + 1
  /\ lastEval' = m
  /\ pc' = "test"
  /\ UNCHANGED <<i, m, readUnset, updates, converged, out, ret>>

\* lines 151-155 with the break moved below the update of line 161
TestThenUpdate ==
  /\ pc = "test"
  /\ readUnset' = (readUnset \/ ~errorSet)
  /\ IF WithinThreshold(error)
     THEN pc' = "print" /\ converged' = TRUE /\ m' = Feedback(m, error)
     ELSE pc' = "update" /\ converged' = converged /\ m' = m
  /\ UNCHANGED <<i, theta, error, frame, errorSet, evals, updates, lastEval,
                 out, ret>>

\* lines 151-155
Test ==
  /\ pc = "test"
  /\ readUnset' = (readUnset \/ ~errorSet)
  /\ IF WithinThreshold(error)
     THEN pc' = "print" /\ converged' = TRUE
     ELSE pc' = "update" /\ converged' = converged
  /\ UNCHANGED <<i, m, theta, error, frame, errorSet, evals, updates, lastEval,
                 out, ret>>

\* lines 161-162 without the assignment of line 161
UpdateCountsOnly ==
  /\ pc = "update"
  /\ readUnset' = (readUnset \/ ~errorSet)
  /\ i' = i - 1
  /\ updates' = updates + 1
  /\ pc' = "loop"
  /\ UNCHANGED <<m, theta, error, frame, errorSet, evals, lastEval, converged,
                 out, ret>>

\* lines 161-162
Update ==
  /\ pc = "update"
  /\ readUnset' = (readUnset \/ ~errorSet)
  /\ m' = Feedback(m, error)
  /\ i' = i - 1
  /\ updates' = updates + 1
  /\ pc' = "loop"
  /\ UNCHANGED <<theta, error, frame, errorSet, evals, lastEval, converged, out,
                 ret>>

\* lines 167-170
Report ==
  /\ pc = "print"
  /\ readUnset' = (readUnset \/ ~errorSet)
  /\ out' = <<IterationsUsed(i), m, error, alpha(m)>>
  /\ pc' = "ret"
  /\ UNCHANGED <<i, m, theta, error, frame, errorSet, evals, updates, lastEval,
                 converged, ret>>

\* line 171
Return ==
  /\ pc = "ret"
  /\ ret' = 0
  /\ pc' = "done"
  /\ UNCHANGED <<i, m, theta, error, frame, errorSet, readUnset, evals, updates,
                 lastEval, converged, out>>

Next == LoopTest \/ Evaluate \/ Test \/ Update \/ Report \/ Return

\* the program
Spec == Init /\ [][Next]_vars

(***************************************************************************)
(* The program started from other initial guesses than that of line 5:     *)
(* the guess itself, zero, a slope too small for m*m + 1.0 to differ from  *)
(* 1.0, and slopes on both sides of the solution.                          *)
(***************************************************************************)
Pow2(n) == Pack(1, BShl(<<1>>, MantBits - 1), n - (MantBits - 1))

GuessList ==
  <<CONSTRAINT_SLOPE_INITIAL_GUESS, Zero(1), Pow2(-33), RNeg(Half), FromInt(2)>>

NGuesses == 4

Guesses == {GuessList[k] : k \in 1..NGuesses}

InitAny == \E guess \in Guesses : InitWith(guess)

SpecAny == InitAny /\ [][Next]_vars

(***************************************************************************)
(* main around an arbitrary ConstraintTest and alpha: each call returns    *)
(* any of the values of Returned, which are a NaN, an infinity, the target  *)
(* angle (an error of zero) and an angle off the target.  The              *)
(* initial guess is that of line 5 or a slope so large that the feedback   *)
(* of line 161 is absorbed by the rounding of the sum.                     *)
(***************************************************************************)
Returned == {NaN, Inf(1), FIFTY_DEGREES_AS_RADIANS, Zero(1)}

\* the values alpha returns: a NaN or a finite angle
AlphaReturned == {NaN, FromInt(40)}

LoopGuesses == {CONSTRAINT_SLOPE_INITIAL_GUESS, Pow2(MantBits + 6)}

InitLoop == \E guess \in LoopGuesses : InitWith(guess)

\* lines 149-150
EvaluateAny ==
  /\ pc = "eval"
  /\ \E angle \in Returned : theta' = angle
  /\ error' = ErrorOf(theta')
  /\ errorSet' = TRUE
  /\ evals' = evals + 1
  /\ lastEval' = m
  /\ pc' = "test"
  /\ UNCHANGED <<i, m, frame, readUnset, updates, converged, out, ret>>

\* lines 167-170
ReportAny ==
  /\ pc = "print"
  /\ readUnset' = (readUnset \/ ~errorSet)
  /\ \E angle \in AlphaReturned : out' = <<IterationsUsed(i), m, error, angle>>
  /\ pc' = "ret"
  /\ UNCHANGED <<i, m, theta, error, frame, errorSet, evals, updates, lastEval,
                 converged, ret>>

NextLoop ==
  LoopTest \/ EvaluateAny \/ Test \/ Update \/ ReportAny \/ Return

SpecLoop == InitLoop /\ [][NextLoop]_vars

(***************************************************************************)
(* A running program takes its next step.  Every step of NextLoop changes  *)
(* pc, and in every position but "done" exactly one action of NextLoop has *)
(* its guard true and its assignments defined, so that under               *)
(* [][NextLoop]_vars the steps <<Advance>>_pc are the steps                *)
(* <<NextLoop>>_vars and Advance is enabled where NextLoop is: the         *)
(* condition is weak fairness of NextLoop.                                 *)
(***************************************************************************)
Positions == {"loop", "eval", "test", "update", "print", "ret", "done"}

Advance == pc # "done" /\ pc' \in Positions

FairLoop == SpecLoop /\ WF_pc(Advance)

\* the loop has been left
Exited == pc \in {"print", "ret", "done"}

\* the four lines have been printed
Printed == pc \in {"ret", "done"}


(***************************************************************************)
(* The properties.                                                         *)
(***************************************************************************)

\* C1: from the initial guess 1.0, with 1000 iterations, the gain 0.1 and the
\* target of 50 degrees in radians, the loop is left only by convergence and
\* with iterations remaining: the error printed is within the threshold and
\* the count printed is below 1000.
C1_ConvergesFromInitialGuess ==
  /\ i > 0
  /\ Exited => converged /\ WithinThreshold(error)
  /\ Printed => out[1] < CONSTRAINT_SOLVER_MAX_ITERATIONS
                /\ WithinThreshold(out[3])

C1_Witness ==
  pc = "done" /\ converged /\ out[1] > 0
              /\ out[1] < CONSTRAINT_SOLVER_MAX_ITERATIONS

\* C2: whatever values ConstraintTest returns, finite, infinite or NaN, it is
\* evaluated at most 1000 times, the loop is left in exactly one of two ways,
\* converged (the error within the threshold and iterations remaining) or
\* exhausted (no iterations remaining), and the program then prints its four
\* values and returns 0, which it does in every execution.
C2_Exits ==
  /\ evals <= CONSTRAINT_SOLVER_MAX_ITERATIONS
  /\ i >= 0
  /\ Exited => (converged <=> i > 0)
  /\ Exited /\ i > 0 => WithinThreshold(error)
  /\ pc \in {"ret", "done"} => Len(out) = 4
  /\ ret = IF pc = "done" THEN 0 ELSE -1

C2_Terminates == []C2_Exits /\ <>(pc = "done")

C2_Witness ==
  pc = "done" /\ ~converged /\ IsInf(theta) /\ ret = 0
              /\ evals = CONSTRAINT_SOLVER_MAX_ITERATIONS

\* C3: the step that finds the error within the threshold changes neither m
\* nor i; after it the slope, and then the slope printed, is the slope last
\* evaluated, and the error printed is ConstraintTest of the slope printed
\* less the target and is within the threshold.
C3_ConvergedState ==
  /\ converged => /\ Exited
                  /\ m = lastEval
                  /\ frame.m = m
                  /\ theta = frame.return
                  /\ error = ErrorOf(theta)
                  /\ WithinThreshold(error)
  /\ converged /\ Printed => /\ out[2] = lastEval
                             /\ out[3] = ErrorOf(ConstraintTest(out[2]))
                             /\ WithinThreshold(out[3])

C3_ConvergenceStep ==
  pc = "test" /\ pc' = "print" => converged' /\ m' = m /\ i' = i

C3_ConvergedIsFinal == []C3_ConvergedState /\ [][C3_ConvergenceStep]_vars

C3_Witness ==
  pc = "done" /\ converged /\ updates > 0 /\ out[2] = lastEval
              /\ ~IsZero(out[3])

\* C4: the count printed is 1000 less the iterations remaining; in every
\* state that difference is the number of updates of the slope applied so
\* far and lies in 0..1000; once printed, the count is below 1000 exactly
\* when the loop converged and is 1000 exactly when it was exhausted.
C4_IterationCount ==
  /\ IterationsUsed(i) = updates
  /\ IterationsUsed(i) \in 0..CONSTRAINT_SOLVER_MAX_ITERATIONS
  /\ Printed => /\ out[1] = IterationsUsed(i)
                /\ out[1] < CONSTRAINT_SOLVER_MAX_ITERATIONS <=> converged
                /\ out[1] = CONSTRAINT_SOLVER_MAX_ITERATIONS <=> ~converged

\* convergence at the last evaluation the loop allows
C4_Witness ==
  pc = "done" /\ converged /\ evals = CONSTRAINT_SOLVER_MAX_ITERATIONS
              /\ out[1] = CONSTRAINT_SOLVER_MAX_ITERATIONS - 1

(***************************************************************************)
(* The triangle BCK of alpha, measured with vec2Angle, in degrees.         *)
(***************************************************************************)
PointB == [x |-> FromInt(1), y |-> Zero(1)]

PointC == [x |-> Zero(1), y |-> Zero(1)]

\* the angle at b between the sides to a and to c
AngleDeg(a, b, c) == RMul(vec2Angle(a, b, c), RADIANS_TO_DEGREES)

SideLength(a, b) == vec2Magnitude(vec2Subtract(a, b))

\* a millionth of a degree, or of the unit length
Tolerance == DivTo(DoubleBits, FromInt(1), FromInt(1000000))

Close(x, y) == RLessEq(fabsl(RSub(x, y)), Tolerance)

\* the sides BC and BK have length 1 and the angles opposite them agree
Isosceles(slope) ==
  /\ Close(SideLength(PointB, PointC), FromInt(1))
  /\ Close(SideLength(PointB, PointK(slope)), FromInt(1))
  /\ Close(AngleDeg(PointB, PointC, PointK(slope)),
           AngleDeg(PointB, PointK(slope), PointC))

ApexAtB(angle, slope) ==
  /\ Isosceles(slope)
  /\ Close(angle, AngleDeg(PointC, PointB, PointK(slope)))

ApexAtC(angle, slope) ==
  /\ Close(AngleDeg(PointC, PointB, PointK(slope)),
           AngleDeg(PointB, PointK(slope), PointC))
  /\ Close(angle, AngleDeg(PointB, PointC, PointK(slope)))

\* ConstraintTest has been called for a slope at which K is not C
Trial == pc = "test" /\ IsFinite(lastEval) /\ ~IsZero(lastEval)

\* C5, as the code has it: for every trial slope and for the slope printed,
\* alpha is the angle at B of the triangle BCK, between the sides BC and BK
\* of length 1, and the two equal angles are those at C and at K.
C5_AlphaIsAngleAtB ==
  /\ Trial => ApexAtB(alpha(lastEval), lastEval)
  /\ Printed /\ IsFinite(out[2]) => ApexAtB(out[4], out[2])

\* C5, as stated: alpha is the angle at C and the equal angles are those at
\* B and at K.
C5_AlphaIsAngleAtC ==
  /\ Trial => ApexAtC(alpha(lastEval), lastEval)
  /\ Printed /\ IsFinite(out[2]) => ApexAtC(out[4], out[2])

C5_Witness ==
  pc = "done" /\ converged /\ IsFinite(out[4]) /\ ApexAtB(out[4], out[2])

\* C6: at every trial slope the length j that alpha computes from the slope
\* is the length j that ConstraintTest computed from it.
C6_SameJ ==
  pc = "test" => frame.m = lastEval /\ AlphaJ(lastEval) = frame.j

C6_Witness ==
  pc = "test" /\ updates > 0 /\ IsFinite(frame.j) /\ ~IsZero(frame.j)

\* C7: ConstraintTest(0) is a NaN; when ConstraintTest returns a NaN the
\* comparison with the threshold is false and the update makes m a NaN;
\* ConstraintTest of a NaN is a NaN again, so that convergence is not
\* declared afterwards; the run is exhausted, prints the count 1000 and NaN
\* for the slope, the error and alpha, and returns 0.
C7_NaNRunsToExhaustion ==
  /\ pc = "test" /\ (IsZero(lastEval) \/ IsNaN(lastEval)) => IsNaN(theta)
  /\ pc \in {"test", "update"} /\ IsNaN(theta) =>
       IsNaN(error) /\ ~WithinThreshold(error)
  /\ pc = "update" /\ IsNaN(theta) => IsNaN(Feedback(m, error))
  /\ errorSet /\ IsNaN(error) /\ pc \in {"loop", "eval"} => IsNaN(m)
  /\ IsNaN(m) \/ (errorSet /\ IsNaN(error)) => ~converged
  /\ Exited /\ IsNaN(m) => i = 0
  /\ Printed /\ IsNaN(out[2]) =>
       /\ out[1] = CONSTRAINT_SOLVER_MAX_ITERATIONS
       /\ IsNaN(out[3])
       /\ IsNaN(out[4])
  /\ pc = "done" => ret = 0

C7_Witness ==
  pc = "done" /\ IsNaN(out[2]) /\ IsNaN(out[3]) /\ IsNaN(out[4])
              /\ out[1] = CONSTRAINT_SOLVER_MAX_ITERATIONS /\ ret = 0

C10_ErrorAssignedBeforeRead ==
  /\ ~readUnset
  /\ pc \in {"test", "update", "print", "ret", "done"} => errorSet /\ evals >= 1

\* the shortest execution: convergence at the first evaluation
C10_Witness ==
  pc = "done" /\ evals = 1 /\ errorSet /\ ~readUnset

====
